---- MODULE Spec2Model ----
(***************************************************************************)
(* Model of pygfx's scene-graph node (objects/_base.py, WorldObject) and   *)
(* of PointsMaterial (materials/_points.py): its validated enum            *)
(* properties, color and size in the uniform buffer, and the decoding of   *)
(* pick values.                                                            *)
(*                                                                         *)
(* Matrices.  The linalg package is not part of the excerpt.  A Matrix4 is *)
(* modelled by its action on the x axis: the pair (a, b) stands for the    *)
(* affine map x |-> a*x + b, i.e. the entries M[0][0] and M[0][3] of a     *)
(* matrix built from translations along x, half-turn rotations about the   *)
(* up axis and x scalings.  The product of such matrices is the            *)
(* composition of the maps, which is associative, has an identity and does *)
(* not commute.                                                            *)
(***************************************************************************)
EXTENDS Integers, Sequences, FiniteSets, TLC

\* The world objects that exist, and Python's None.
Nodes == {1, 2, 3}
None == 0

\* Bound on the number of calls explored.
MaxSteps == 3
\* Bound on nested recursive calls before Python raises RecursionError.
RecursionLimit == 5

\* Values a caller assigns to position / rotation / scale (x components).
Positions == {0, 1}
Rotations == {1, -1}
Scales == {1, 2}

VARIABLES
    parent,              \* node -> its parent, or None
    children,            \* node -> the list _children
    position,            \* node -> local position
    rotation,            \* node -> local rotation
    scale,               \* node -> local scale
    matrix,              \* node -> cached local matrix
    matrix_world,        \* node -> cached world matrix
    matrix_world_dirty,  \* node -> dirty flag
    visited,             \* the callback invocations of the latest call
    color_mode,          \* PointsMaterial._store.color_mode
    size_mode,           \* PointsMaterial._store.size_mode
    size_space,          \* PointsMaterial._store.size_space
    map_interpolation,   \* PointsMaterial._store.map_interpolation
    color_data,          \* PointsMaterial.uniform_buffer.data["color"]
    size_data,           \* PointsMaterial.uniform_buffer.data["size"]
    pending,             \* the ranges of uniform_buffer awaiting upload
    color_is_transparent, \* PointsMaterial._store.color_is_transparent
    written,             \* the fields written since the ranges were cleared
    pick_value,          \* the latest value handed to _wgpu_get_pick_info
    pick_info,           \* the dict it returned
    last,                \* the latest call: operation, arguments, exception
    steps                \* number of calls made so far

hier == <<parent, children>>
transform == <<position, rotation, scale>>
matrices == <<matrix, matrix_world, matrix_world_dirty>>
scene == <<parent, children, position, rotation, scale, matrix, matrix_world,
           matrix_world_dirty>>
material == <<color_mode, size_mode, size_space, map_interpolation>>
uniform == <<color_data, size_data, pending, color_is_transparent, written>>
pick == <<pick_value, pick_info>>
vars == <<parent, children, position, rotation, scale, matrix, matrix_world,
          matrix_world_dirty, visited, color_mode, size_mode, size_space,
          map_interpolation, color_data, size_data, pending,
          color_is_transparent, written, pick_value, pick_info, last, steps>>

-----------------------------------------------------------------------------
(* Matrix4 *)

\* Matrix4(): the identity.
Matrix4 == [a |-> 1, b |-> 0]

\* Matrix4.compose(position, rotation, scale): translate * rotate * scale.
Compose(p, r, s) == [a |-> r * s, b |-> p]

\* Matrix4.multiply_matrices(m1, m2): m1 * m2.
MultiplyMatrices(m1, m2) == [a |-> m1.a * m2.a, b |-> m1.a * m2.b + m1.b]

-----------------------------------------------------------------------------
(* list helpers *)

InList(x, seq) == \E i \in 1..Len(seq) : seq[i] = x

\* list.remove(x): drops the first occurrence of x.
ListRemove(seq, x) ==
    IF ~InList(x, seq) THEN seq
    ELSE LET i == CHOOSE k \in 1..Len(seq) :
                      seq[k] = x /\ \A j \in 1..(k - 1) : seq[j] # x
         IN  SubSeq(seq, 1, i - 1) \o SubSeq(seq, i + 1, Len(seq))

-----------------------------------------------------------------------------
(* the record of a call *)

\* was: the parent obj had when the call was made (add and remove only).
Call(op, self, obj, force, uc, up, value, raised) ==
    [op |-> op, self |-> self, obj |-> obj,
     was |-> IF obj = None THEN None ELSE parent[obj],
     force |-> force, update_children |-> uc, update_parents |-> up,
     value |-> value, raised |-> raised]

NoCall ==
    [op |-> "init", self |-> None, obj |-> None, was |-> None, force |-> FALSE,
     update_children |-> FALSE, update_parents |-> FALSE, value |-> "",
     raised |-> ""]

-----------------------------------------------------------------------------
(* WorldObject *)

\* Variant of remove that leaves obj.parent as it is.
RemoveKeepsParent(h, self, obj) ==
    [parent |-> h.parent,
     children |-> [h.children EXCEPT ![self] = ListRemove(@, obj)]]

\* Variant of remove that clears obj.parent before the membership test.
RemoveAlwaysOrphans(h, self, obj) ==
    [parent |-> [h.parent EXCEPT ![obj] = None],
     children |-> [h.children EXCEPT ![self] = ListRemove(@, obj)]]

\* remove(self, obj) on a hierarchy h = [parent, children].
RemoveEffect(h, self, obj) ==
    IF InList(obj, h.children[self])
    THEN [parent   |-> [h.parent EXCEPT ![obj] = None],
          children |-> [h.children EXCEPT ![self] = ListRemove(@, obj)]]
    ELSE h

\* Variant of add that does not orphan obj first.
AddWithoutDetach(h, self, obj) ==
    [parent   |-> [h.parent EXCEPT ![obj] = self],
     children |-> [h.children EXCEPT ![self] = Append(@, obj)]]

\* Variant of add that inserts obj before the other children.
AddAtFront(h, self, obj) ==
    LET h1 == IF h.parent[obj] # None
              THEN RemoveEffect(h, h.parent[obj], obj)
              ELSE h
    IN  [parent   |-> [h1.parent EXCEPT ![obj] = self],
         children |-> [h1.children EXCEPT ![self] = <<obj>> \o @]]

\* add(self, obj) on a hierarchy h = [parent, children].
AddEffect(h, self, obj) ==
    LET h1 == IF h.parent[obj] # None
              THEN RemoveEffect(h, h.parent[obj], obj)
              ELSE h
    IN  [parent   |-> [h1.parent EXCEPT ![obj] = self],
         children |-> [h1.children EXCEPT ![self] = Append(@, obj)]]

\* Variant of update_matrix that leaves the dirty flag alone.
UpdateMatrixKeepsFlag(st, n) ==
    [st EXCEPT !.matrix[n] = Compose(position[n], rotation[n], scale[n])]

\* update_matrix(self) on the matrix state st = [matrix, matrix_world, dirty, raised].
UpdateMatrixEffect(st, n) ==
    [st EXCEPT !.matrix[n] = Compose(position[n], rotation[n], scale[n]),
               !.dirty[n] = TRUE]

\* Variant of the branch that multiplies by the parent's local matrix.
RecomputeWorldFromParentLocal(st, n) ==
    LET w == IF parent[n] = None
             THEN st.matrix[n]
             ELSE MultiplyMatrices(st.matrix[parent[n]], st.matrix[n])
    IN  [st EXCEPT !.matrix_world[n] = w,
                   !.dirty = [m \in Nodes |->
                                IF InList(m, children[n]) THEN TRUE
                                ELSE IF m = n THEN FALSE
                                ELSE st.dirty[m]]]

\* Variant of the branch that leaves the children's flags alone.
RecomputeWorldKeepsChildren(st, n) ==
    LET w == IF parent[n] = None
             THEN st.matrix[n]
             ELSE MultiplyMatrices(st.matrix_world[parent[n]], st.matrix[n])
    IN  [st EXCEPT !.matrix_world[n] = w, !.dirty[n] = FALSE]

\* The dirty-or-force branch of update_matrix_world.
RecomputeWorld(st, n) ==
    LET w == IF parent[n] = None
             THEN st.matrix[n]
             ELSE MultiplyMatrices(st.matrix_world[parent[n]], st.matrix[n])
    IN  [st EXCEPT !.matrix_world[n] = w,
                   !.dirty = [m \in Nodes |->
                                IF InList(m, children[n]) THEN TRUE
                                ELSE IF m = n THEN FALSE
                                ELSE st.dirty[m]]]

RECURSIVE UpdateMatrixWorldEffect(_, _, _, _, _, _)
RECURSIVE UpdateChildrenEffect(_, _, _, _)

RECURSIVE UpdateChildrenShallow(_, _, _, _)
\* Variant of the loop that calls the children with update_children=False.
UpdateChildrenShallow(st, n, i, depth) ==
    IF i > Len(children[n]) \/ st.raised THEN st
    ELSE UpdateChildrenShallow(
             UpdateMatrixWorldEffect(st, children[n][i], FALSE, FALSE, FALSE, depth + 1),
             n, i + 1, depth)

\* for child in self._children: child.update_matrix_world(), from index i on.
UpdateChildrenEffect(st, n, i, depth) ==
    IF i > Len(children[n]) \/ st.raised THEN st
    ELSE UpdateChildrenEffect(
             UpdateMatrixWorldEffect(st, children[n][i], FALSE, TRUE, FALSE, depth + 1),
             n, i + 1, depth)

\* Variant of the upward call that passes update_parents=False.
UpdateParentOnly(st, p, force, depth) ==
    UpdateMatrixWorldEffect(st, p, force, FALSE, FALSE, depth + 1)

\* self.parent.update_matrix_world(force=force, update_children=False,
\* update_parents=True), p being self.parent.
UpdateParentEffect(st, p, force, depth) ==
    UpdateMatrixWorldEffect(st, p, force, FALSE, TRUE, depth + 1)

\* update_matrix_world(self, force, update_children, update_parents), as the
\* frame number depth of the recursion.
UpdateMatrixWorldEffect(st, n, force, uc, up, depth) ==
    IF depth > RecursionLimit THEN [st EXCEPT !.raised = TRUE]
    ELSE
    LET s1 == IF up /\ parent[n] # None
              THEN UpdateParentEffect(st, parent[n], force, depth)
              ELSE st
    IN  IF s1.raised THEN s1
        ELSE
        LET s2 == UpdateMatrixEffect(s1, n)
            s3 == IF s2.dirty[n] \/ force THEN RecomputeWorld(s2, n) ELSE s2
        IN  IF uc THEN UpdateChildrenEffect(s3, n, 1, depth) ELSE s3

MatrixState ==
    [matrix |-> matrix, matrix_world |-> matrix_world,
     dirty |-> matrix_world_dirty, raised |-> FALSE]

RECURSIVE TraverseEffect(_, _, _)
RECURSIVE TraverseChildren(_, _, _, _)

\* for child in self.children: child.traverse(callback), from index i on.
TraverseChildren(tr, n, i, depth) ==
    IF i > Len(children[n]) \/ tr.raised THEN tr
    ELSE TraverseChildren(TraverseEffect(tr, children[n][i], depth + 1),
                          n, i + 1, depth)

\* Variant of traverse that calls the callback after the children.
TraversePostOrder(tr, n, depth) ==
    IF depth > RecursionLimit THEN [tr EXCEPT !.raised = TRUE]
    ELSE LET t1 == TraverseChildren(tr, n, 1, depth)
         IN  IF t1.raised THEN t1 ELSE [t1 EXCEPT !.seq = Append(@, n)]

\* traverse(self, callback) with a callback that records its argument.
TraverseEffect(tr, n, depth) ==
    IF depth > RecursionLimit THEN [tr EXCEPT !.raised = TRUE]
    ELSE TraverseChildren([tr EXCEPT !.seq = Append(@, n)], n, 1, depth)

Raised(b) == IF b THEN "RecursionError" ELSE ""

-----------------------------------------------------------------------------
(* PointsMaterial: the validated enum properties *)

\* Python's None, as a value handed to a setter.
PyNone == "<None>"

\* The members of the enums of utils.enums, which is not part of the excerpt.
ColorMode == {"auto", "uniform", "vertex", "face"}
SizeMode == {"uniform", "vertex"}
CoordSpace == {"screen", "world", "model"}

\* The values map_interpolation accepts.
MapInterpolations == {"nearest", "linear"}

\* The values a caller assigns to the enum properties.
EnumInputs ==
    ColorMode \cup SizeMode \cup CoordSpace \cup MapInterpolations
        \cup {PyNone, "", "bogus"}

\* bool(value) is False.
Falsy(value) == value \in {PyNone, ""}

\* value or default
Or(value, default) == IF Falsy(value) THEN default ELSE value

\* Variant of the color_mode setter that stores before it validates.
ColorModeSetterStoresFirst(stored, value) ==
    LET v == Or(value, "auto")
    IN  [stored |-> v,
         raised |-> IF v \notin ColorMode THEN "ValueError" ELSE ""]

\* color_mode.setter: the value stored afterwards and the exception raised.
ColorModeSetter(stored, value) ==
    LET v == Or(value, "auto")
    IN  IF v \notin ColorMode
        THEN [stored |-> stored, raised |-> "ValueError"]
        ELSE [stored |-> v, raised |-> ""]

\* Variant of the size_space setter that lacks the membership test.
SizeSpaceSetterUnchecked(stored, value) ==
    [stored |-> Or(value, "screen"), raised |-> ""]

\* size_space.setter
SizeSpaceSetter(stored, value) ==
    LET v == Or(value, "screen")
    IN  IF v \notin CoordSpace
        THEN [stored |-> stored, raised |-> "ValueError"]
        ELSE [stored |-> v, raised |-> ""]

\* size_mode.setter
SizeModeSetter(stored, value) ==
    LET v == Or(value, "uniform")
    IN  IF v \notin SizeMode
        THEN [stored |-> stored, raised |-> "ValueError"]
        ELSE [stored |-> v, raised |-> ""]

\* map_interpolation.setter: an assert statement, with assertions enabled.
MapInterpolationSetter(stored, value) ==
    IF value \in MapInterpolations
    THEN [stored |-> value, raised |-> ""]
    ELSE [stored |-> stored, raised |-> "AssertionError"]

SetColorMode(value) ==
    /\ LET r == ColorModeSetter(color_mode, value)
       IN  /\ color_mode' = r.stored
           /\ last' = Call("set_color_mode", None, None, FALSE, FALSE, FALSE,
                           value, r.raised)
    /\ UNCHANGED <<scene, visited, steps, uniform, pick>>
    /\ UNCHANGED <<size_mode, size_space, map_interpolation>>

SetSizeSpace(value) ==
    /\ LET r == SizeSpaceSetter(size_space, value)
       IN  /\ size_space' = r.stored
           /\ last' = Call("set_size_space", None, None, FALSE, FALSE, FALSE,
                           value, r.raised)
    /\ UNCHANGED <<scene, visited, steps, uniform, pick>>
    /\ UNCHANGED <<color_mode, size_mode, map_interpolation>>

SetSizeMode(value) ==
    /\ LET r == SizeModeSetter(size_mode, value)
       IN  /\ size_mode' = r.stored
           /\ last' = Call("set_size_mode", None, None, FALSE, FALSE, FALSE,
                           value, r.raised)
    /\ UNCHANGED <<scene, visited, steps, uniform, pick>>
    /\ UNCHANGED <<color_mode, size_space, map_interpolation>>

SetMapInterpolation(value) ==
    /\ LET r == MapInterpolationSetter(map_interpolation, value)
       IN  /\ map_interpolation' = r.stored
           /\ last' = Call("set_map_interpolation", None, None, FALSE, FALSE,
                           FALSE, value, r.raised)
    /\ UNCHANGED <<scene, visited, steps, uniform, pick>>
    /\ UNCHANGED <<color_mode, size_mode, size_space>>

-----------------------------------------------------------------------------
(* PointsMaterial: color and size, kept in the uniform buffer *)

\* The fields color ("4xf4") and size ("f4") of the one item the uniform
\* buffer holds: byte offset and byte width.
UniformLayout ==
    [color |-> [offset |-> 0, width |-> 16],
     size |-> [offset |-> 16, width |-> 4]]

UniformFields == DOMAIN UniformLayout

\* The bytes of one field.
FieldBytes(f) ==
    UniformLayout[f].offset .. UniformLayout[f].offset + UniformLayout[f].width - 1

\* The bytes of one item of the buffer.
ItemBytes == UNION {FieldBytes(f) : f \in UniformFields}

\* Buffer.update_range(offset, size), counted in items: one more range of
\* items awaits upload.
UpdateRange(pend, offset, size) == pend \cup {<<offset, size>>}

\* The bytes the ranges awaiting upload cover.
PendingBytes(pend) ==
    UNION {{b + (r[1] + i) * Cardinality(ItemBytes) : b \in ItemBytes,
                                                      i \in 0..(r[2] - 1)}
           : r \in pend}

\* Colours are tuples of channels in hundredths: 100 stands for 1.0.  The
\* values a caller assigns to color: RGBA tuples, RGB tuples and, as the
\* empty tuple, a value that is no colour.
ColorInputs ==
    {<<100, 100, 100, 100>>, <<100, 0, 0, 50>>, <<0, 0, 100, 0>>,
     <<0, 100, 0>>, <<>>}

\* Color(value): the RGBA colour a value stands for (an RGB value is
\* opaque), or the empty tuple when Color raises.
Color(value) ==
    IF Len(value) = 4 THEN value
    ELSE IF Len(value) = 3 THEN Append(value, 100)
    ELSE <<>>

\* color.a < 1
AlphaBelowOne(color) == color[4] < 100

\* The values a caller assigns to size: numbers, and a value that is none.
SizeInputs ==
    {[number |-> TRUE, val |-> v] : v \in {1, 4, 10}}
        \cup {[number |-> FALSE, val |-> 0]}

\* The state the two setters work on.
UniformState ==
    [color |-> color_data, size |-> size_data, pending |-> pending,
     transparent |-> color_is_transparent, raised |-> ""]

\* Variant of the color setter that leaves the derived flag alone.
ColorSetterKeepsFlag(u, value) ==
    LET color == Color(value)
    IN  IF color = <<>> THEN [u EXCEPT !.raised = "ValueError"]
        ELSE [u EXCEPT !.color = color,
                       !.pending = UpdateRange(@, 0, 1)]

\* Variant of the color setter that marks the item after the first.
ColorSetterNextItem(u, value) ==
    LET color == Color(value)
    IN  IF color = <<>> THEN [u EXCEPT !.raised = "ValueError"]
        ELSE [u EXCEPT !.color = color,
                       !.pending = UpdateRange(@, 1, 1),
                       !.transparent = AlphaBelowOne(color)]

\* color.setter
ColorSetter(u, value) ==
    LET color == Color(value)
    IN  IF color = <<>> THEN [u EXCEPT !.raised = "ValueError"]
        ELSE [u EXCEPT !.color = color,
                       !.pending = UpdateRange(@, 0, 1),
                       !.transparent = AlphaBelowOne(color)]

\* color (the getter)
ColorGetter == Color(color_data)

\* Variant of the size setter that marks nothing for upload.
SizeSetterWithoutRange(u, value) ==
    IF ~value.number THEN [u EXCEPT !.raised = "ValueError"]
    ELSE [u EXCEPT !.size = value.val]

\* size.setter: storing a value that is no number into the float field
\* raises before anything is marked.
SizeSetter(u, value) ==
    IF ~value.number THEN [u EXCEPT !.raised = "ValueError"]
    ELSE [u EXCEPT !.size = value.val,
                   !.pending = UpdateRange(@, 0, 1)]

\* size (the getter)
SizeGetter == size_data

SetColor(value) ==
    /\ LET u == ColorSetter(UniformState, value)
       IN  /\ color_data' = u.color
           /\ pending' = u.pending
           /\ color_is_transparent' = u.transparent
           /\ written' = IF u.raised = "" THEN written \cup {"color"}
                         ELSE written
           /\ last' = Call("set_color", None, None, FALSE, FALSE, FALSE, "",
                           u.raised)
    /\ UNCHANGED <<scene, visited, steps, material, size_data, pick>>

SetSize(value) ==
    /\ LET u == SizeSetter(UniformState, value)
       IN  /\ size_data' = u.size
           /\ pending' = u.pending
           /\ written' = IF u.raised = "" THEN written \cup {"size"}
                         ELSE written
           /\ last' = Call("set_size", None, None, FALSE, FALSE, FALSE, "",
                           u.raised)
    /\ UNCHANGED <<scene, visited, steps, material, color_data,
                   color_is_transparent, pick>>

\* The renderer has uploaded every range awaiting upload and clears them.
ClearPending ==
    /\ pending' = {}
    /\ written' = {}
    /\ last' = Call("clear_pending", None, None, FALSE, FALSE, FALSE, "", "")
    /\ UNCHANGED <<scene, visited, steps, material, color_data, size_data,
                   color_is_transparent, pick>>

-----------------------------------------------------------------------------
(* PointsMaterial: decoding a pick value *)

\* A pick value is the sequence of its bits, the least significant first.
\* The fields the shader packs into it, from bit 0 on, and their widths.
PickLayout == <<<<"wobject_id", 20>>, <<"index", 26>>, <<"x", 9>>, <<"y", 9>>>>

RECURSIVE FromBits(_)
\* The number a sequence of bits stands for.
FromBits(bits) ==
    IF bits = <<>> THEN 0 ELSE Head(bits) + 2 * FromBits(Tail(bits))

\* The w low bits of the number v.
ToBits(v, w) == [i \in 1..w |-> (v \div 2^(i - 1)) % 2]

RECURSIVE WidthBefore(_, _)
\* The number of bits below field i.
WidthBefore(fields, i) ==
    IF i = 1 THEN 0 ELSE WidthBefore(fields, i - 1) + fields[i - 1][2]

\* unpack_bitfield(packed, **bit_counts): each field is the next
\* bit_counts[key] low bits of what the fields before it left.
UnpackBitfield(packed, fields) ==
    [key \in {fields[i][1] : i \in DOMAIN fields} |->
        LET i == CHOOSE j \in DOMAIN fields : fields[j][1] = key
        IN  FromBits(SubSeq(packed, WidthBefore(fields, i) + 1,
                            WidthBefore(fields, i) + fields[i][2]))]

RECURSIVE PackFrom(_, _, _)
PackFrom(values, fields, i) ==
    IF i > Len(fields) THEN <<>>
    ELSE ToBits(values[fields[i][1]], fields[i][2])
             \o PackFrom(values, fields, i + 1)

\* The value the shader writes for the given fields.
PackBitfield(values, fields) == PackFrom(values, fields, 1)

\* _wgpu_get_pick_info(self, pick_value): the dict it returns.
WgpuGetPickInfo(value) ==
    LET values == UnpackBitfield(value, PickLayout)
    IN  [vertex_index |-> values["index"],
         point_coord |-> <<values["x"] - 256, values["y"] - 256>>]

\* The field values the pick values are built from.
ObjectIds == {0, 7, 2^20 - 1}
VertexIndices == {0, 123456, 2^26 - 1}
Coords == {0, 200, 256, 300, 2^9 - 1}

PickFields ==
    [wobject_id : ObjectIds, index : VertexIndices, x : Coords, y : Coords]

PickValues == {PackBitfield(f, PickLayout) : f \in PickFields}

GetPickInfo(value) ==
    /\ pick_value' = value
    /\ pick_info' = WgpuGetPickInfo(value)
    /\ last' = Call("get_pick_info", None, None, FALSE, FALSE, FALSE, "", "")
    /\ UNCHANGED <<scene, visited, steps, material, uniform>>

-----------------------------------------------------------------------------
(* actions of the scene graph *)

Add(self, obj) ==
    /\ LET h == AddEffect([parent |-> parent, children |-> children], self, obj)
       IN  /\ parent' = h.parent
           /\ children' = h.children
    /\ matrix_world_dirty' = [matrix_world_dirty EXCEPT ![obj] = TRUE]
    /\ visited' = <<>>
    /\ last' = Call("add", self, obj, FALSE, FALSE, FALSE, "", "")
    /\ UNCHANGED <<transform, matrix, matrix_world, material, uniform, pick>>

Remove(self, obj) ==
    /\ LET h == RemoveEffect([parent |-> parent, children |-> children], self, obj)
       IN  /\ parent' = h.parent
           /\ children' = h.children
    /\ visited' = <<>>
    /\ last' = Call("remove", self, obj, FALSE, FALSE, FALSE, "", "")
    /\ UNCHANGED <<transform, matrices, material, uniform, pick>>

Traverse(self) ==
    /\ LET tr == TraverseEffect([seq |-> <<>>, raised |-> FALSE], self, 1)
       IN  /\ visited' = tr.seq
           /\ last' = Call("traverse", self, None, FALSE, FALSE, FALSE, "",
                           Raised(tr.raised))
    /\ UNCHANGED <<scene, material, uniform, pick>>

SetPosition(self, v) ==
    /\ position' = [position EXCEPT ![self] = v]
    /\ visited' = <<>>
    /\ last' = Call("set_position", self, None, FALSE, FALSE, FALSE, "", "")
    /\ UNCHANGED <<hier, rotation, scale, matrices, material, uniform, pick>>

SetRotation(self, v) ==
    /\ rotation' = [rotation EXCEPT ![self] = v]
    /\ visited' = <<>>
    /\ last' = Call("set_rotation", self, None, FALSE, FALSE, FALSE, "", "")
    /\ UNCHANGED <<hier, position, scale, matrices, material, uniform, pick>>

SetScale(self, v) ==
    /\ scale' = [scale EXCEPT ![self] = v]
    /\ visited' = <<>>
    /\ last' = Call("set_scale", self, None, FALSE, FALSE, FALSE, "", "")
    /\ UNCHANGED <<hier, position, rotation, matrices, material, uniform, pick>>

UpdateMatrix(self) ==
    /\ LET st == UpdateMatrixEffect(MatrixState, self)
       IN  /\ matrix' = st.matrix
           /\ matrix_world_dirty' = st.dirty
    /\ visited' = <<>>
    /\ last' = Call("update_matrix", self, None, FALSE, FALSE, FALSE, "", "")
    /\ UNCHANGED <<hier, transform, matrix_world, material, uniform, pick>>

UpdateMatrixWorld(self, force, uc, up) ==
    /\ LET st == UpdateMatrixWorldEffect(MatrixState, self, force, uc, up, 1)
       IN  /\ matrix' = st.matrix
           /\ matrix_world' = st.matrix_world
           /\ matrix_world_dirty' = st.dirty
           /\ last' = Call("update_matrix_world", self, None, force, uc, up, "",
                           Raised(st.raised))
    /\ visited' = <<>>
    /\ UNCHANGED <<hier, transform, material, uniform, pick>>

\* Variant of the call look_at makes that keeps the default arguments.
LookAtRefreshDefaults(st, n) ==
    UpdateMatrixWorldEffect(st, n, FALSE, TRUE, FALSE, 1)

\* self.update_matrix_world(update_parents=True, update_children=False)
LookAtRefresh(st, n) ==
    UpdateMatrixWorldEffect(st, n, FALSE, FALSE, TRUE, 1)

\* look_at(self, target): the rotation it stores is computed by linalg from
\* the world position, the target, the up vector and the parent's world
\* rotation; r is that result.
LookAt(self, r) ==
    /\ LET st == LookAtRefresh(MatrixState, self)
       IN  /\ matrix' = st.matrix
           /\ matrix_world' = st.matrix_world
           /\ matrix_world_dirty' = st.dirty
           /\ rotation' = IF st.raised THEN rotation
                          ELSE [rotation EXCEPT ![self] = r]
           /\ last' = Call("look_at", self, None, FALSE, FALSE, TRUE, "",
                           Raised(st.raised))
    /\ visited' = <<>>
    /\ UNCHANGED <<hier, position, scale, material, uniform, pick>>

-----------------------------------------------------------------------------
(* specification of the scene graph *)

\* PointsMaterial() with the default arguments.
MaterialInit ==
    /\ color_mode = "auto"
    /\ size_mode = "uniform"
    /\ size_space = "screen"
    /\ map_interpolation = "linear"
    /\ LET u0 == [color |-> <<>>, size |-> 0, pending |-> {},
                  transparent |-> FALSE, raised |-> ""]
           u1 == SizeSetter(u0, [number |-> TRUE, val |-> 4])
           u2 == ColorSetter(u1, <<100, 100, 100, 100>>)
       IN  /\ color_data = u2.color
           /\ size_data = u2.size
           /\ pending = u2.pending
           /\ color_is_transparent = u2.transparent
    /\ written = {"size", "color"}
    /\ pick_value = <<>>
    /\ pick_info = <<>>

\* WorldObject.__init__ for every node.
SceneInit ==
    /\ parent = [n \in Nodes |-> None]
    /\ children = [n \in Nodes |-> <<>>]
    /\ position = [n \in Nodes |-> 0]
    /\ rotation = [n \in Nodes |-> 1]
    /\ scale = [n \in Nodes |-> 1]
    /\ matrix = [n \in Nodes |-> Matrix4]
    /\ matrix_world = [n \in Nodes |-> Matrix4]
    /\ matrix_world_dirty = [n \in Nodes |-> TRUE]

Init ==
    /\ SceneInit
    /\ MaterialInit
    /\ visited = <<>>
    /\ last = NoCall
    /\ steps = 0

\* One more call, while the exploration bound allows it.
Tick == steps < MaxSteps /\ steps' = steps + 1

Next ==
    \/ \E self \in Nodes, obj \in Nodes : Tick /\ Add(self, obj)
    \/ \E self \in Nodes, obj \in Nodes : Tick /\ Remove(self, obj)
    \/ \E self \in Nodes : Tick /\ Traverse(self)
    \/ \E self \in Nodes, v \in Positions : Tick /\ SetPosition(self, v)
    \/ \E self \in Nodes, v \in Rotations : Tick /\ SetRotation(self, v)
    \/ \E self \in Nodes, v \in Scales : Tick /\ SetScale(self, v)
    \/ \E self \in Nodes : Tick /\ UpdateMatrix(self)
    \/ \E self \in Nodes, force \in BOOLEAN, uc \in BOOLEAN, up \in BOOLEAN :
           Tick /\ UpdateMatrixWorld(self, force, uc, up)
    \/ \E self \in Nodes, r \in Rotations : Tick /\ LookAt(self, r)

Spec == Init /\ [][Next]_vars

-----------------------------------------------------------------------------
(* hierarchy calls only, in any number *)

NextHierarchy ==
    \/ \E self \in Nodes, obj \in Nodes : UNCHANGED steps /\ Add(self, obj)
    \/ \E self \in Nodes, obj \in Nodes : UNCHANGED steps /\ Remove(self, obj)
    \/ \E self \in Nodes : UNCHANGED steps /\ Traverse(self)

SpecHierarchy == Init /\ [][NextHierarchy]_vars

-----------------------------------------------------------------------------
(* assignments to the enum properties of one material, in any number *)

NextMaterial ==
    \/ \E value \in EnumInputs : SetColorMode(value)
    \/ \E value \in EnumInputs : SetSizeSpace(value)
    \/ \E value \in EnumInputs : SetSizeMode(value)
    \/ \E value \in EnumInputs : SetMapInterpolation(value)

SpecMaterial == Init /\ [][NextMaterial]_vars

-----------------------------------------------------------------------------
(* assignments to color and size, and uploads, in any number *)

NextUniform ==
    \/ \E value \in ColorInputs : SetColor(value)
    \/ \E value \in SizeInputs : SetSize(value)
    \/ ClearPending

SpecUniform == Init /\ [][NextUniform]_vars

-----------------------------------------------------------------------------
(* pick values decoded by one material, in any number *)

NextPick == \E value \in PickValues : GetPickInfo(value)

SpecPick == Init /\ [][NextPick]_vars

-----------------------------------------------------------------------------
(* the calls of Spec on a chain 1 -> 2 -> 3 that has just been fully updated *)

FreshHierarchy ==
    [parent |-> [n \in Nodes |-> None], children |-> [n \in Nodes |-> <<>>]]

\* The hierarchy after add(1, 2) and add(2, 3) on fresh nodes.
ChainHierarchy == AddEffect(AddEffect(FreshHierarchy, 1, 2), 2, 3)

\* The state after these two calls and update_matrix_world(force=True) on 1.
InitChain ==
    /\ parent = ChainHierarchy.parent
    /\ children = ChainHierarchy.children
    /\ position = [n \in Nodes |-> 0]
    /\ rotation = [n \in Nodes |-> 1]
    /\ scale = [n \in Nodes |-> 1]
    /\ LET st == UpdateMatrixWorldEffect(
                     [matrix |-> [n \in Nodes |-> Matrix4],
                      matrix_world |-> [n \in Nodes |-> Matrix4],
                      dirty |-> [n \in Nodes |-> TRUE], raised |-> FALSE],
                     1, TRUE, TRUE, FALSE, 1)
       IN  /\ matrix = st.matrix
           /\ matrix_world = st.matrix_world
           /\ matrix_world_dirty = st.dirty
    /\ MaterialInit
    /\ visited = <<>>
    /\ last = [NoCall EXCEPT !.op = "update_matrix_world", !.self = 1,
                              !.force = TRUE, !.update_children = TRUE]
    /\ steps = 0

SpecChain == InitChain /\ [][Next]_vars

-----------------------------------------------------------------------------
(* notions the properties are stated with *)

RECURSIVE AncestorsWithin(_, _)
\* The nodes met by following at most k parent references from n.
AncestorsWithin(n, k) ==
    IF k = 0 \/ parent[n] = None THEN {}
    ELSE {parent[n]} \cup AncestorsWithin(parent[n], k - 1)

Ancestors(n) == AncestorsWithin(n, Cardinality(Nodes))
Descendants(n) == {m \in Nodes : n \in Ancestors(m)}
Subtree(n) == {n} \cup Descendants(n)

\* No node is its own ancestor.
Acyclic == \A n \in Nodes : n \notin Ancestors(n)

RECURSIVE ReachableWithin(_, _)
\* The nodes met by following at most k steps of children lists from n.
ReachableWithin(n, k) ==
    IF k = 0 THEN {}
    ELSE LET cs == {children[n][i] : i \in 1..Len(children[n])}
         IN  cs \cup UNION {ReachableWithin(c, k - 1) : c \in cs}

\* No node is met again by following children lists from it.
ChildrenAcyclic ==
    \A n \in Nodes : n \notin ReachableWithin(n, Cardinality(Nodes))

\* The parent references from n end at a root.
Rooted(n) == \A m \in {n} \cup Ancestors(n) : m \notin Ancestors(m)

\* The local matrix composed from the current position / rotation / scale.
Local(n) == Compose(position[n], rotation[n], scale[n])

RECURSIVE WorldProduct(_)
\* The product of the local matrices from the root down to n (n rooted).
WorldProduct(n) ==
    IF parent[n] = None THEN Local(n)
    ELSE MultiplyMatrices(WorldProduct(parent[n]), Local(n))

\* The number of occurrences of x in a list.
Count(x, seq) == Cardinality({i \in 1..Len(seq) : seq[i] = x})

\* The place of node x in the sequence visited.
VisitIndex(x) == CHOOSE i \in 1..Len(visited) : visited[i] = x

-----------------------------------------------------------------------------
(* properties *)

\* C1: after update_matrix_world(force=True) on a root, with update_children
\* left True, every node of the root's tree has a world matrix equal to the
\* product of the current local matrices from the root down to it.
C1_WorldMatrixCorrect ==
    (/\ last.op = "update_matrix_world"
     /\ last.force /\ last.update_children
     /\ parent[last.self] = None)
    => /\ last.raised = ""
       /\ \A n \in Subtree(last.self) : matrix_world[n] = WorldProduct(n)

\* C1 witness: a forced update from the root of a chain of three nodes whose
\* leaf ends with a world matrix that is not the identity.
C1_Witness ==
    /\ last.op = "update_matrix_world"
    /\ last.force /\ last.update_children
    /\ parent[last.self] = None
    /\ \E n \in Nodes :
          /\ parent[n] # None
          /\ parent[parent[n]] = last.self
          /\ matrix_world[n] # Matrix4
          /\ matrix_world[n] = WorldProduct(n)

\* The precondition and the call of C2: the latest call updated node
\* last.self alone and left it current, no local change is waiting to be
\* recomputed anywhere, and this step updates its descendant d alone.
C2_DescendantOnlyUpdate(d) ==
    /\ last.op = "update_matrix_world"
    /\ ~last.update_children
    /\ last.raised = ""
    /\ Rooted(last.self)
    /\ matrix_world[last.self] = WorldProduct(last.self)
    /\ \A m \in Nodes : matrix[m] = Local(m)
    /\ last'.op = "update_matrix_world"
    /\ ~last'.update_parents
    /\ last'.self = d
    /\ d \in Descendants(last.self)

\* C2: once a mutated node has been updated alone, an update of any of its
\* descendants alone leaves that descendant with the world matrix composed
\* from its ancestors' current local matrices and its own.
C2_DirtyPropagation ==
    [][\A d \in Nodes :
          C2_DescendantOnlyUpdate(d) => matrix_world'[d] = WorldProduct(d)']_vars

\* C3: every node is in at most one children list, at most once, and its
\* parent reference names the node whose list it is in; after add(self, obj)
\* that node is self.
C3_SingleParent ==
    /\ \A c \in Nodes :
          /\ \A p \in Nodes : (parent[c] = p) <=> InList(c, children[p])
          /\ \A p \in Nodes : Count(c, children[p]) <= 1
          /\ Cardinality({p \in Nodes : InList(c, children[p])}) <= 1
          /\ (parent[c] = None) <=> (\A p \in Nodes : ~InList(c, children[p]))
    /\ last.op = "add"
          => /\ parent[last.obj] = last.self
             /\ \A p \in Nodes \ {last.self} : ~InList(last.obj, children[p])

\* C3 witness: add moved a node from one parent to another.
C3_Witness ==
    /\ last.op = "add"
    /\ last.was \notin {None, last.self, last.obj}
    /\ last.self # last.obj
    /\ parent[last.obj] = last.self
    /\ ~InList(last.obj, children[last.was])

\* C4: a node that is not dirty has a world matrix equal to its parent's
\* world matrix times its cached local matrix, or to its cached local matrix
\* when it has no parent.
C4_CleanImpliesConsistent ==
    \A n \in Nodes :
        ~matrix_world_dirty[n]
        => matrix_world[n] =
              IF parent[n] = None THEN matrix[n]
              ELSE MultiplyMatrices(matrix_world[parent[n]], matrix[n])

\* C5 as stated: after any add and remove calls no node is its own ancestor.
C5_NoCycles == Acyclic

\* C5 amended: add(self, obj) keeps an acyclic hierarchy acyclic when self is
\* neither obj nor a descendant of obj, and remove always keeps it acyclic:
\* no node is then its own ancestor, by parent references or by children
\* lists.
C5_NoCyclesUnlessAddedBelowItself ==
    [][(/\ Acyclic
        /\ \/ last'.op = "remove"
           \/ last'.op = "add" /\ last'.self \notin Subtree(last'.obj))
       => (Acyclic' /\ ChildrenAcyclic')]_vars

\* C5 witness: add attached a parentless node below a node that has a parent
\* itself, and the hierarchy is acyclic.
C5_Witness ==
    /\ last.op = "add"
    /\ last.was = None
    /\ parent[last.obj] = last.self
    /\ parent[last.self] # None
    /\ Acyclic

\* C6: remove(self, obj) with obj not in self's children raises nothing and
\* changes nothing of the scene; after any remove(self, obj), obj is not in
\* self's children, so that a second remove changes nothing.
C6_RemoveNonChildIsNoOp ==
    [][last'.op = "remove"
       => /\ last'.raised = ""
          /\ ~InList(last'.obj, children[last'.self]) => UNCHANGED scene
          /\ ~InList(last'.obj, children'[last'.self])]_vars

\* C6 witness: remove was called on a node that is a child of another node,
\* and has kept that parent.
C6_Witness ==
    /\ last.op = "remove"
    /\ last.was \notin {None, last.self}
    /\ parent[last.obj] = last.was
    /\ InList(last.obj, children[last.was])

\* C7: after add(self, obj), and after a remove(self, obj) that detached obj
\* from self, obj is dirty.
C7_ReparentingMarksDirty ==
    /\ last.op = "add" => matrix_world_dirty[last.obj]
    /\ (last.op = "remove" /\ last.was = last.self)
          => matrix_world_dirty[last.obj]

\* C8: after update_matrix_world(update_parents=True) on a rooted node, the
\* node and each of its ancestors are not dirty and have the world matrix
\* composed from the current local matrices from the root down to them.
C8_AncestorsFirst ==
    (/\ last.op = "update_matrix_world"
     /\ last.update_parents
     /\ Rooted(last.self))
    => /\ last.raised = ""
       /\ \A m \in {last.self} \cup Ancestors(last.self) :
             /\ ~matrix_world_dirty[m]
             /\ matrix_world[m] = WorldProduct(m)

\* C8 witness: an unforced update with update_parents on the leaf of a chain
\* of three nodes, which ends with a world matrix that is not the identity.
C8_Witness ==
    /\ last.op = "update_matrix_world"
    /\ last.update_parents /\ ~last.force
    /\ Rooted(last.self)
    /\ parent[last.self] # None
    /\ parent[parent[last.self]] # None
    /\ matrix_world[parent[last.self]] # Matrix4
    /\ matrix_world[last.self] = WorldProduct(last.self)

\* The visit sequence is the depth-first pre-order of last.self's subtree.
C9_PreOrder ==
    /\ last.raised = ""
    /\ {visited[i] : i \in 1..Len(visited)} = Subtree(last.self)
    /\ Len(visited) = Cardinality(Subtree(last.self))
    /\ \A x \in Subtree(last.self) : \A y \in Descendants(x) :
          VisitIndex(x) < VisitIndex(y)
    /\ \A p \in Subtree(last.self) : \A i, j \in 1..Len(children[p]) :
          i < j => \A x \in Subtree(children[p][i]) :
                     \A y \in Subtree(children[p][j]) :
                        VisitIndex(x) < VisitIndex(y)

\* C9 as stated: on any hierarchy built by add and remove, traverse ends and
\* visits the subtree once, in depth-first pre-order.
C9_TraverseAnyHierarchy == last.op = "traverse" => C9_PreOrder

\* C9 amended: traverse on a node that is not its own ancestor ends and
\* visits exactly the node's subtree, each node once, parents before
\* descendants and sibling subtrees in children order, which leaves one
\* sequence for a given hierarchy; it changes nothing of the scene.
C9_TraverseAcyclic ==
    /\ [](last.op = "traverse" /\ last.self \notin Ancestors(last.self)
            => C9_PreOrder)
    /\ [][last'.op = "traverse" => UNCHANGED scene]_vars

\* C9 witness: traverse of a node with two children visited three nodes.
C9_Witness ==
    /\ last.op = "traverse"
    /\ last.raised = ""
    /\ Len(children[last.self]) = 2
    /\ visited = <<last.self>> \o children[last.self]

\* The value sets, defaults and stored values of the four enum properties.
EnumSetters ==
    {"set_color_mode", "set_size_mode", "set_size_space", "set_map_interpolation"}

Members(op) ==
    CASE op = "set_color_mode" -> ColorMode
      [] op = "set_size_mode" -> SizeMode
      [] op = "set_size_space" -> CoordSpace
      [] op = "set_map_interpolation" -> MapInterpolations

Stored(op) ==
    CASE op = "set_color_mode" -> color_mode
      [] op = "set_size_mode" -> size_mode
      [] op = "set_size_space" -> size_space
      [] op = "set_map_interpolation" -> map_interpolation

\* What a falsy value stands for in the setters that replace it.
DefaultOf(op) ==
    CASE op = "set_color_mode" -> "auto"
      [] op = "set_size_mode" -> "uniform"
      [] op = "set_size_space" -> "screen"

\* C10 as stated: assigning a member stores it and raises nothing; assigning
\* any other value raises and leaves the stored value as it was.
C10_InvalidEnumRejected ==
    [][\A op \in EnumSetters :
          last'.op = op
          => IF last'.value \in Members(op)
             THEN last'.raised = "" /\ Stored(op)' = last'.value
             ELSE last'.raised # "" /\ Stored(op)' = Stored(op)]_vars

\* C10 amended: color_mode, size_mode and size_space first replace a falsy
\* value (None, the empty string) by their default, which is then stored;
\* any other value that is not a member raises (ValueError, and for
\* map_interpolation, which replaces nothing, AssertionError) and leaves
\* every property as it was; a member is stored and read back unchanged.
C10_InvalidEnumRejectedUnlessFalsy ==
    [][\A op \in EnumSetters :
          last'.op = op
          => LET v == IF op # "set_map_interpolation" /\ Falsy(last'.value)
                      THEN DefaultOf(op)
                      ELSE last'.value
             IN  IF v \in Members(op)
                 THEN last'.raised = "" /\ Stored(op)' = v
                 ELSE /\ last'.raised =
                            IF op = "set_map_interpolation"
                            THEN "AssertionError" ELSE "ValueError"
                      /\ UNCHANGED material]_vars

\* C10 witness: color_mode holds a value other than its default and an
\* assignment of a non-member has just raised.
C10_Witness ==
    /\ last.op = "set_color_mode"
    /\ last.value = "bogus"
    /\ last.raised = "ValueError"
    /\ color_mode = "vertex"

\* C11: after construction and after any sequence of assignments to
\* color_mode, size_mode, size_space and map_interpolation, whether they
\* succeed or fail, each of the four values read back is a member of the
\* value set its property declares.
C11_StoredEnumsValid ==
    /\ color_mode \in ColorMode
    /\ size_mode \in SizeMode
    /\ size_space \in CoordSpace
    /\ map_interpolation \in MapInterpolations

\* C11 witness: an assignment to size_space has just failed while every
\* property holds a value other than the one it was constructed with.
C11_Witness ==
    /\ last.op = "set_size_space"
    /\ last.value = "bogus"
    /\ last.raised = "ValueError"
    /\ color_mode = "face"
    /\ size_mode = "vertex"
    /\ size_space = "model"
    /\ map_interpolation = "nearest"

\* C12: after construction and after any sequence of assignments to color,
\* whether they succeed or fail, color_is_transparent is true exactly when
\* the alpha of the colour read back is below 1, and false when it is 1.
C12_TransparencyTracksColor ==
    /\ color_is_transparent = AlphaBelowOne(ColorGetter)
    /\ ColorGetter[4] = 100 => ~color_is_transparent

\* C12 witness: a semi-transparent colour is stored, the flag is set, and an
\* assignment of a value that is no colour has just failed.
C12_Witness ==
    /\ last.op = "set_color"
    /\ last.raised = "ValueError"
    /\ ColorGetter = <<100, 0, 0, 50>>
    /\ color_is_transparent

\* An opaque colour given without alpha has just been stored over a
\* transparent one.
C12_WitnessOpaque ==
    /\ last.op = "set_color"
    /\ last.raised = ""
    /\ ColorGetter = <<0, 100, 0, 100>>
    /\ ~color_is_transparent

\* C13: for an object id below 2^20, an index below 2^26 and two coordinate
\* fields below 2^9 packed with the widths (20, 26, 9, 9), the decoder
\* returns the object id as wobject_id, the index as vertex_index and the
\* two coordinates less 256 as point_coord; the fields 7, 123456, 300, 200
\* decode to wobject_id 7, vertex_index 123456, point_coord (44, -56).
C13_PickDecode ==
    last.op = "get_pick_info"
    => \A f \in PickFields :
          pick_value = PackBitfield(f, PickLayout)
          => /\ DOMAIN pick_info = {"wobject_id", "vertex_index", "point_coord"}
             /\ pick_info.wobject_id = f.wobject_id
             /\ pick_info.vertex_index = f.index
             /\ pick_info.point_coord = <<f.x - 256, f.y - 256>>

\* What the decoder does return for these values: the index and the two
\* coordinates less 256, and no entry for the object id.
C13_PickDecodeWithoutObjectId ==
    last.op = "get_pick_info"
    => \A f \in PickFields :
          pick_value = PackBitfield(f, PickLayout)
          => /\ DOMAIN pick_info = {"vertex_index", "point_coord"}
             /\ pick_info.vertex_index = f.index
             /\ pick_info.point_coord = <<f.x - 256, f.y - 256>>

\* The value packed from 7, 123456, 300, 200 has been decoded.
C13_Witness ==
    /\ last.op = "get_pick_info"
    /\ pick_value = PackBitfield([wobject_id |-> 7, index |-> 123456,
                                  x |-> 300, y |-> 200], PickLayout)
    /\ pick_info = [vertex_index |-> 123456, point_coord |-> <<44, -56>>]

\* The successful write of field f to a buffer with nothing awaiting upload.
WriteAfterClear(f) ==
    /\ pending = {}
    /\ last'.op = (IF f = "size" THEN "set_size" ELSE "set_color")
    /\ last'.raised = ""

\* C14 as stated: writing size to a cleared buffer leaves exactly the bytes
\* of the size field awaiting upload, and writing color to a cleared buffer
\* exactly the bytes of the color field, so that the two writes report
\* different ranges.
C14_PerFieldRange ==
    [][\A f \in UniformFields :
          WriteAfterClear(f) => PendingBytes(pending') = FieldBytes(f)]_vars

\* C14 amended: writing size to a cleared buffer leaves the range of the one
\* whole item awaiting upload, which covers the size field and the color
\* field alike; writing color to a cleared buffer leaves that same range.
C14_WholeItemRange ==
    [][\A f \in UniformFields :
          WriteAfterClear(f)
          => /\ pending' = {<<0, 1>>}
             /\ PendingBytes(pending') = ItemBytes
             /\ FieldBytes(f) \subseteq PendingBytes(pending')]_vars

\* C14 witness: the ranges were cleared after a write of size, and color
\* has been written since.
C14_Witness ==
    /\ last.op = "set_color"
    /\ last.raised = ""
    /\ written = {"color"}
    /\ size_data = 10
    /\ pending = {<<0, 1>>}

\* C15: whenever color or size has been written since the ranges were last
\* cleared, the ranges awaiting upload are not empty and cover the bytes of
\* every field written; they are empty only if nothing has been written
\* since; and the value each accessor returns is the value the buffer holds.
C15_NoUncommittedWriteLooksClean ==
    /\ written # {}
       => /\ pending # {}
          /\ \A f \in written : FieldBytes(f) \subseteq PendingBytes(pending)
    /\ pending = {} => written = {}
    /\ ColorGetter = color_data
    /\ SizeGetter = size_data

\* C15 witness: nothing awaited upload, size has been written since, and an
\* assignment to size has failed after that.
C15_Witness ==
    /\ last.op = "set_size"
    /\ last.raised = "ValueError"
    /\ written = {"size"}
    /\ size_data = 1
    /\ pending # {}

\* Every range has been uploaded and nothing written since.
C15_WitnessClean ==
    /\ last.op = "clear_pending"
    /\ pending = {}
    /\ written = {}
    /\ color_is_transparent

\* The members of the list of children of n.
DirectChildren(n) == {children[n][i] : i \in 1..Len(children[n])}

\* What C16 says a call update_matrix_world(update_children=False,
\* update_parents=False) on n does.
C16_OneLevel(n) ==
    /\ ~matrix_world_dirty'[n]
    /\ \A c \in DirectChildren(n) : matrix_world_dirty'[c]
    /\ \A d \in Descendants(n) :
          /\ d \notin DirectChildren(n)
             => matrix_world_dirty'[d] = matrix_world_dirty[d]
          /\ matrix'[d] = matrix[d]
          /\ matrix_world'[d] = matrix_world[d]
    /\ \A m \in Nodes \ Subtree(n) :
          /\ matrix_world_dirty'[m] = matrix_world_dirty[m]
          /\ matrix'[m] = matrix[m]
          /\ matrix_world'[m] = matrix_world[m]

\* C16 as stated: on any node, a single update_matrix_world with
\* update_children=False and update_parents=False clears the node's dirty
\* flag, sets the flag of every direct child and leaves unchanged the flags
\* of deeper descendants, the matrices of all descendants and the matrices
\* and flags of all ancestors and unrelated nodes.
C16_LazyOneLevel ==
    [][\A n \in Nodes :
          /\ last'.op = "update_matrix_world"
          /\ last'.self = n
          /\ ~last'.update_children
          /\ ~last'.update_parents
          => C16_OneLevel(n)]_vars

\* C16 amended: the same, on a node that is not its own ancestor.
C16_LazyOneLevelBelowNoCycle ==
    [][\A n \in Nodes :
          /\ last'.op = "update_matrix_world"
          /\ last'.self = n
          /\ ~last'.update_children
          /\ ~last'.update_parents
          /\ n \notin Ancestors(n)
          => C16_OneLevel(n)]_vars

\* C16 witness: node 1 of the chain has been moved and then updated alone;
\* its world matrix is fresh, its child 2 is dirty with a stale world matrix
\* and its grandchild 3 is still clean.
C16_Witness ==
    /\ last.op = "update_matrix_world"
    /\ last.self = 1
    /\ ~last.update_children
    /\ ~last.update_parents
    /\ parent[2] = 1 /\ parent[3] = 2
    /\ matrix_world[1] = Compose(1, 1, 1)
    /\ ~matrix_world_dirty[1]
    /\ matrix_world_dirty[2]
    /\ matrix_world[2] = Matrix4
    /\ ~matrix_world_dirty[3]

\* C17: look_at on a node of an acyclic hierarchy leaves the node and all
\* of its ancestors non-dirty, with world matrices equal to the product of
\* the local matrices from the root as they are before the rotation is
\* rewritten; it changes no descendant's world or local matrix and no
\* node's position, scale, parent or children, and the only rotation it
\* rewrites is that of the node itself.
C17_LookAtRefreshesUpward ==
    [][\A n \in Nodes :
          /\ last'.op = "look_at"
          /\ last'.self = n
          /\ Acyclic
          => /\ \A m \in {n} \cup Ancestors(n) :
                   /\ ~matrix_world_dirty'[m]
                   /\ matrix_world'[m] = WorldProduct(m)
             /\ \A d \in Descendants(n) :
                   /\ matrix'[d] = matrix[d]
                   /\ matrix_world'[d] = matrix_world[d]
             /\ UNCHANGED <<position, scale, parent, children>>
             /\ \A m \in Nodes \ {n} : rotation'[m] = rotation[m]]_vars

\* C17 witness: the root of the chain has been moved and look_at called on
\* the leaf 3; the three world matrices are fresh and clean, and the new
\* rotation of 3 is not yet in its matrices.
C17_Witness ==
    /\ last.op = "look_at"
    /\ last.self = 3
    /\ parent[2] = 1 /\ parent[3] = 2 /\ parent[1] = None
    /\ position[1] = 1
    /\ \A n \in Nodes : matrix_world[n] = Compose(1, 1, 1)
    /\ \A n \in Nodes : ~matrix_world_dirty[n]
    /\ rotation[3] = -1
    /\ matrix[3] = Matrix4

\* look_at on the middle node of the chain: its child 3 keeps its stale
\* world matrix and is marked dirty.
C17_WitnessMiddle ==
    /\ last.op = "look_at"
    /\ last.self = 2
    /\ parent[2] = 1 /\ parent[3] = 2 /\ parent[1] = None
    /\ matrix_world[2] = Compose(1, 1, 1)
    /\ matrix_world[3] = Matrix4
    /\ matrix_world_dirty[3]

\* The members of a list other than x, in the order of the list.
Without(seq, x) == LET Other(y) == y # x IN SelectSeq(seq, Other)

\* C18: add(node, child) always puts child last in node's children and keeps
\* the relative order of all other children; when child already is an
\* immediate child of node, the set of children and child's parent are the
\* same afterwards, child occurs exactly once, in the last position, and is
\* marked dirty.
C18_AddAppends ==
    [][\A node \in Nodes, child \in Nodes :
          /\ last'.op = "add"
          /\ last'.self = node
          /\ last'.obj = child
          => /\ children'[node] # <<>>
             /\ children'[node][Len(children'[node])] = child
             /\ Without(children'[node], child) = Without(children[node], child)
             /\ InList(child, children[node])
                => /\ DirectChildren(node)' = DirectChildren(node)
                   /\ parent'[child] = parent[child]
                   /\ parent'[child] = node
                   /\ Count(child, children'[node]) = 1
                   /\ matrix_world_dirty'[child]]_vars

\* C18 witness: 2 was the first of the two children of 1, clean, and has
\* been added to 1 again; it is now the last child, once, and dirty.
C18_Witness ==
    /\ last.op = "add"
    /\ last.self = 1
    /\ last.obj = 2
    /\ last.was = 1
    /\ children[1] = <<3, 2>>
    /\ parent[2] = 1
    /\ matrix_world_dirty[2]

\* C19: from any state and on any node, update_matrix_world(force=False)
\* and update_matrix_world(force=True) with the same update_children and
\* update_parents end in the same state (and raise alike).
C19_ForceRedundant ==
    \A n \in Nodes, uc \in BOOLEAN, up \in BOOLEAN :
        UpdateMatrixWorldEffect(MatrixState, n, FALSE, uc, up, 1)
            = UpdateMatrixWorldEffect(MatrixState, n, TRUE, uc, up, 1)

\* C19 witness: node 2, a root, was updated and then moved, and another
\* node has had an unforced update since; 2 is clean while its world matrix
\* is stale, and an unforced update of 2 alone recomputes that matrix all
\* the same.
C19_Witness ==
    /\ last.op = "update_matrix_world"
    /\ ~last.force
    /\ last.self # 2
    /\ parent[2] = None
    /\ ~matrix_world_dirty[2]
    /\ matrix_world[2] # Local(2)
    /\ LET st == UpdateMatrixWorldEffect(MatrixState, 2, FALSE, FALSE, FALSE, 1)
       IN  /\ st.matrix_world[2] # matrix_world[2]
           /\ st.matrix_world[2] = Local(2)

\* C20: when update_matrix_world on a node n of an acyclic hierarchy
\* returns, n is non-dirty; with update_children=True every node of n's
\* subtree is non-dirty and its world matrix is its parent's world matrix
\* times its own local matrix; with update_parents=False no ancestor's world
\* matrix or dirty flag is written.
C20_FlagsAfterUpdate ==
    [][\A n \in Nodes :
          /\ last'.op = "update_matrix_world"
          /\ last'.self = n
          /\ Acyclic
          => /\ ~matrix_world_dirty'[n]
             /\ last'.update_children
                => \A m \in Subtree(n) :
                      /\ ~matrix_world_dirty'[m]
                      /\ matrix'[m] = Local(m)
                      /\ matrix_world'[m] =
                            IF parent[m] = None THEN matrix'[m]
                            ELSE MultiplyMatrices(matrix_world'[parent[m]],
                                                  matrix'[m])
             /\ ~last'.update_parents
                => \A a \in Ancestors(n) :
                      /\ matrix_world'[a] = matrix_world[a]
                      /\ matrix_world_dirty'[a] = matrix_world_dirty[a]]_vars

\* C20 witness: on fresh nodes, 2 was added to 1, 3 to 2, and 2 updated
\* with its children but without its parents: 2 and 3 are non-dirty while
\* their ancestor 1 is still dirty.
C20_Witness ==
    /\ last.op = "update_matrix_world"
    /\ last.self = 2
    /\ last.update_children
    /\ ~last.update_parents
    /\ parent[2] = 1 /\ parent[3] = 2 /\ parent[1] = None
    /\ matrix_world_dirty[1]
    /\ ~matrix_world_dirty[2]
    /\ ~matrix_world_dirty[3]
    /\ matrix_world[3] = MultiplyMatrices(matrix_world[2], Local(3))

====
